---- MODULE Spec2Model ----
(***************************************************************************)
(* Model of the pairwise debt netting engine of split-buddy-api:           *)
(* src/core/debt-simplifier/debt-simplifier.ts (class DebtSimplifier).     *)
(*                                                                         *)
(* The ledger `creditors` is the two-level Map creditor -> debtor ->       *)
(* Debtor, modelled as a function whose DOMAIN is the set of keys present. *)
(* Arrays are sequences; the code's 0-based indices are kept as they are   *)
(* and converted (+1) only where a sequence is read.                       *)
(* Array.prototype.sort is modelled as the engine that runs the code does  *)
(* it (V8 TimSort; for arrays shorter than 64 elements this is one run     *)
(* detection followed by a binary insertion sort), because the comparator  *)
(* of sortDebtsAscending never answers "equal" and the order of ties is    *)
(* therefore decided by the sorting algorithm. (The code's use of          *)
(* Array.prototype.at rules out the engines that sorted differently.)      *)
(* toJSON and fromJSON (with src/utils/json.ts) are modelled on JSON       *)
(* values: a Map is written as a tagged object holding its entries and     *)
(* read back by the reviver walk of JSON.parse.                            *)
(***************************************************************************)
EXTENDS Integers, Sequences, FiniteSets, TLC

\* ---------------------------------------------------------------- bounds
Participants == {"A", "B", "C"}
Pair == {"A", "B"}
MaxAmount == 3
MaxAdds == 5
BatchLen == 4
MaxCoverDebts == 6

VARIABLES creditors, calls, last, batch, pending, run, restored, loaded,
          search, variant

vars == <<creditors, calls, last, batch, pending, run, restored, loaded,
          search, variant>>

\* ------------------------------------------------------------- utilities
Max(a, b) == IF a >= b THEN a ELSE b

Min(a, b) == IF a <= b THEN a ELSE b

EmptyMap == [k \in {} |-> {}]

\* ------------------------------------------------------------ data model
\* interface DebtTransaction
DebtTransaction(expenseId, grants, amount) ==
  [expenseId |-> expenseId, grants |-> grants, amount |-> amount]

\* getDebtAmount: debt.history.at(-1)?.amount ?? 0
getDebtAmount(debt) ==
  IF Len(debt.history) = 0 THEN 0 ELSE debt.history[Len(debt.history)].amount

hasCreditor(cr, creditorId) == creditorId \in DOMAIN cr

\* hasDebtor throws when the creditor is missing; callers check hasCreditor
hasDebtor(cr, creditorId, debtorId) == debtorId \in DOMAIN cr[creditorId]

\* getDebtor(...) is null: creditor present, debtor key absent
getDebtorIsNull(cr, creditorId, debtorId) == ~ hasDebtor(cr, creditorId, debtorId)

\* Map.set: the entry of the key is written, the other entries stay
initializeEmptyCreditor(cr, creditorId) ==
  (creditorId :> EmptyMap) @@ cr

initializeEmptyDebtor(cr, creditorId, debtorId) ==
  LET cr1 == IF ~ hasCreditor(cr, creditorId)
             THEN initializeEmptyCreditor(cr, creditorId) ELSE cr
  IN (creditorId :>
        ((debtorId :> [owes |-> 0, debts |-> <<>>]) @@ cr1[creditorId])) @@ cr1

\* mutant of ensureDebtor: the creditor's map is created anew on every call
ensureDebtorFresh(cr, creditorId, debtorId) ==
  initializeEmptyDebtor(initializeEmptyCreditor(cr, creditorId), creditorId, debtorId)

\* mutant of ensureDebtor: the debtor record is created only together with
\* the creditor's map
ensureDebtorWithCreditorOnly(cr, creditorId, debtorId) ==
  IF ~ hasCreditor(cr, creditorId)
  THEN initializeEmptyDebtor(initializeEmptyCreditor(cr, creditorId), creditorId, debtorId)
  ELSE cr

\* mutant of ensureDebtor: the debtor record is created anew on every call
ensureDebtorNewRecord(cr, creditorId, debtorId) ==
  initializeEmptyDebtor(cr, creditorId, debtorId)

ensureDebtor(cr, creditorId, debtorId) ==
  LET cr1 == IF ~ hasCreditor(cr, creditorId)
             THEN initializeEmptyCreditor(cr, creditorId) ELSE cr
  IN IF ~ hasDebtor(cr1, creditorId, debtorId)
     THEN initializeEmptyDebtor(cr1, creditorId, debtorId) ELSE cr1

\* mutant of ensureTwoWayRelation: only the creditor's side is ensured
ensureOneWayRelation(cr, creditorId, debtorId) ==
  ensureDebtor(cr, creditorId, debtorId)

ensureTwoWayRelation(cr, creditorId, debtorId) ==
  ensureDebtor(ensureDebtor(cr, creditorId, debtorId), debtorId, creditorId)

\* the creditor is missing, or the debtor record under it is (getDebtor
\* throws in the first case and returns null in the second)
debtorMissing(cr, creditorId, debtorId) ==
  \/ ~ hasCreditor(cr, creditorId)
  \/ getDebtorIsNull(cr, creditorId, debtorId)

\* ------------------------------------------------- upsertDebtTransaction
\* debtor.debts.find(element => element.expenseId === toExpenseId): the
\* 0-based index of the first match, -1 when there is none
\* mutant of findDebtIndex: the debt is never found
findDebtIndexNone(debts, toExpenseId) == -1

findDebtIndex(debts, toExpenseId) ==
  LET hits == {i \in 1..Len(debts) : debts[i].expenseId = toExpenseId}
  IN IF hits = {} THEN -1
     ELSE (CHOOSE i \in hits : \A k \in hits : i <= k) - 1

\* mutant of upsertAmount: the amount is taken from the record's owes
upsertAmountFromOwes(debtor, debt, grants) == debtor.owes + grants

\* the amount written into the appended history entry
upsertAmount(debtor, debt, grants) ==
  IF Len(debt.history) > 0
  THEN debt.history[Len(debt.history)].amount + grants
  ELSE grants

\* mutant of upsertDebtTransaction: the owes cache is not updated
upsertDebtTransactionNoOwes(cr, creditorId, debtorId, fromExpenseId, toExpenseId, grants) ==
  LET debtor == cr[creditorId][debtorId]
      found  == findDebtIndex(debtor.debts, toExpenseId)
      debts1 == IF found = -1
                THEN Append(debtor.debts, [expenseId |-> toExpenseId, history |-> <<>>])
                ELSE debtor.debts
      k      == IF found = -1 THEN Len(debts1) ELSE found + 1
      entry  == DebtTransaction(fromExpenseId, grants,
                                upsertAmount(debtor, debts1[k], grants))
  IN [cr EXCEPT ![creditorId][debtorId].debts =
        [debts1 EXCEPT ![k].history = Append(@, entry)]]

upsertDebtTransaction(cr, creditorId, debtorId, fromExpenseId, toExpenseId, grants) ==
  LET debtor == cr[creditorId][debtorId]
      found  == findDebtIndex(debtor.debts, toExpenseId)
      debts1 == IF found = -1
                THEN Append(debtor.debts, [expenseId |-> toExpenseId, history |-> <<>>])
                ELSE debtor.debts
      k      == IF found = -1 THEN Len(debts1) ELSE found + 1
      entry  == DebtTransaction(fromExpenseId, grants,
                                upsertAmount(debtor, debts1[k], grants))
  IN [cr EXCEPT ![creditorId][debtorId] =
        [owes  |-> debtor.owes + grants,
         debts |-> [debts1 EXCEPT ![k].history = Append(@, entry)]]]

\* --------------------------------------------------- sortDebtsAscending
\* mutant of compareDebts: < in place of <=
compareDebtsStrict(a, b) ==
  IF getDebtAmount(a) < getDebtAmount(b) THEN -1 ELSE 1

\* the comparator handed to Array.prototype.sort
compareDebts(a, b) ==
  IF getDebtAmount(a) <= getDebtAmount(b) THEN -1 ELSE 1

\* V8 CountAndMakeRun: length of the run that starts the array; idx is the
\* 1-based position of the next element to look at
RECURSIVE countRun(_, _, _)
countRun(s, isDescending, idx) ==
  IF idx > Len(s) THEN idx - 1
  ELSE LET order == compareDebts(s[idx], s[idx - 1])
       IN IF (isDescending /\ order >= 0) \/ (~ isDescending /\ order < 0)
          THEN idx - 1
          ELSE countRun(s, isDescending, idx + 1)

\* V8 ReverseRange over the first n elements
RECURSIVE reverseRange(_, _)
reverseRange(s, n) ==
  IF n <= 1 THEN s
  ELSE <<s[n]>> \o reverseRange(SubSeq(s, 1, n - 1) \o SubSeq(s, n + 1, Len(s)), n - 1)

\* V8 BinaryInsertionSort, the binary search for the pivot's place in
\* s[left..right) (0-based, as in the engine)
RECURSIVE insertionPoint(_, _, _, _)
insertionPoint(s, pivot, left, right) ==
  IF left < right
  THEN LET mid == left + ((right - left) \div 2)
       IN IF compareDebts(pivot, s[mid + 1]) < 0
          THEN insertionPoint(s, pivot, left, mid)
          ELSE insertionPoint(s, pivot, mid + 1, right)
  ELSE left

\* V8 BinaryInsertionSort, elements start..Len(s)-1 (0-based) are inserted
\* one after the other into the sorted prefix
RECURSIVE binaryInsertionSort(_, _)
binaryInsertionSort(s, start) ==
  IF start >= Len(s) THEN s
  ELSE LET pivot == s[start + 1]
           left  == insertionPoint(s, pivot, 0, start)
           s1    == SubSeq(s, 1, left) \o <<pivot>> \o SubSeq(s, left + 1, start)
                      \o SubSeq(s, start + 2, Len(s))
       IN binaryInsertionSort(s1, start + 1)

\* Array.prototype.sort with compareDebts, arrays shorter than 64 elements
sortArray(s) ==
  IF Len(s) < 2 THEN s
  ELSE LET isDescending == compareDebts(s[2], s[1]) < 0
           runLength    == countRun(s, isDescending, 3)
           s1           == IF isDescending THEN reverseRange(s, runLength) ELSE s
       IN binaryInsertionSort(s1, runLength)

sortDebtsAscending(cr, creditorId, debtorId) ==
  [cr EXCEPT ![creditorId][debtorId].debts = sortArray(@)]

\* ---------------------------------------------------- findRightmostIndex
\* the "extended binary search" loop; yields the final end and rightmostIndex
RECURSIVE binarySearch(_, _, _, _, _)
binarySearch(value, sortedArray, start, end, rightmostIndex) ==
  IF start <= end
  THEN LET mid      == start + ((end - start) \div 2)
           midValue == getDebtAmount(sortedArray[mid + 1])
       IN IF midValue = value
          THEN binarySearch(value, sortedArray, mid + 1, end, mid)
          ELSE IF midValue < value
          THEN binarySearch(value, sortedArray, mid + 1, end, rightmostIndex)
          ELSE binarySearch(value, sortedArray, start, mid - 1, rightmostIndex)
  ELSE [end |-> end, rightmostIndex |-> rightmostIndex]

\* mutant of findRightmostIndex: the final index is returned as found
findRightmostIndexNoSkip(value, sortedArray) ==
  IF Len(sortedArray) = 0 THEN -1
  ELSE LET r == binarySearch(value, sortedArray, 0, Len(sortedArray) - 1, -1)
       IN IF r.rightmostIndex # -1 THEN r.rightmostIndex ELSE Max(0, r.end)

findRightmostIndex(value, sortedArray) ==
  IF Len(sortedArray) = 0 THEN -1
  ELSE LET r == binarySearch(value, sortedArray, 0, Len(sortedArray) - 1, -1)
           finalIndex == IF r.rightmostIndex # -1 THEN r.rightmostIndex
                         ELSE Max(0, r.end)
       IN IF getDebtAmount(sortedArray[finalIndex + 1]) = 0
             /\ finalIndex + 1 < Len(sortedArray)
          THEN finalIndex + 1
          ELSE finalIndex

\* --------------------------------------------------------------- simplify
\* B.debts.slice(0, debtBIndex + 1).reduce(sum of current amounts)
RECURSIVE prefixSumUpTo(_, _)
prefixSumUpTo(debts, n) ==
  IF n <= 0 THEN 0
  ELSE prefixSumUpTo(debts, n - 1) + getDebtAmount(debts[n])

debtBIndexPrefixSum(debts, debtBIndex) ==
  prefixSumUpTo(debts, Min(Max(debtBIndex + 1, 0), Len(debts)))

\* mutant of grantsOf: the sign is lost
grantsOfPositive(X, Y) == X - (X - (Y - Max(Y - X, 0)))

\* mutant of newYOf: the clamp at 0 is missing
newYOfNoClamp(X, Y) == Y - X

newYOf(X, Y) == Max(Y - X, 0)

newXOf(X, Y) == X - (Y - newYOf(X, Y))

grantsOf(X, Y) == -1 * (X - newXOf(X, Y))

\* mutant of offsetStep: B.owes is not adjusted
offsetStepOneSided(cr, creditorId, debtorId, X, debtBIndex) ==
  LET ia     == Len(cr[creditorId][debtorId].debts)
      debtA  == cr[creditorId][debtorId].debts[ia]
      debtB  == cr[debtorId][creditorId].debts[debtBIndex + 1]
      Y      == getDebtAmount(debtB)
      grants == -1 * (X - (X - (Y - Max(Y - X, 0))))
      cr1    == [cr EXCEPT ![creditorId][debtorId].owes = @ + grants]
      cr2    == [cr1 EXCEPT ![creditorId][debtorId].debts[ia].history =
                   Append(@, DebtTransaction(debtB.expenseId, grants, X + grants))]
  IN [cr2 EXCEPT ![debtorId][creditorId].debts[debtBIndex + 1].history =
        Append(@, DebtTransaction(debtA.expenseId, grants, Y + grants))]

\* mutant of offsetStep: the entry of debtB replaces the last entry of its
\* history
offsetStepRewrite(cr, creditorId, debtorId, X, debtBIndex) ==
  LET ia     == Len(cr[creditorId][debtorId].debts)
      debtA  == cr[creditorId][debtorId].debts[ia]
      debtB  == cr[debtorId][creditorId].debts[debtBIndex + 1]
      Y      == getDebtAmount(debtB)
      grants == -1 * (X - (X - (Y - Max(Y - X, 0))))
      cr1    == [cr EXCEPT ![creditorId][debtorId].owes = @ + grants]
      cr2    == [cr1 EXCEPT ![creditorId][debtorId].debts[ia].history =
                   Append(@, DebtTransaction(debtB.expenseId, grants, X + grants))]
      cr3    == [cr2 EXCEPT ![debtorId][creditorId].owes = @ + grants]
  IN [cr3 EXCEPT ![debtorId][creditorId].debts[debtBIndex + 1].history =
        Append(SubSeq(@, 1, Len(@) - 1),
               DebtTransaction(debtA.expenseId, grants, Y + grants))]

\* one pass of the loop body after the two break tests: the offset is
\* mirrored into debtA (last debt of A) and debtB (B.debts[debtBIndex])
offsetStep(cr, creditorId, debtorId, X, debtBIndex) ==
  LET ia     == Len(cr[creditorId][debtorId].debts)
      debtA  == cr[creditorId][debtorId].debts[ia]
      debtB  == cr[debtorId][creditorId].debts[debtBIndex + 1]
      Y      == getDebtAmount(debtB)
      grants == grantsOf(X, Y)
      cr1    == [cr EXCEPT ![creditorId][debtorId].owes = @ + grants]
      cr2    == [cr1 EXCEPT ![creditorId][debtorId].debts[ia].history =
                   Append(@, DebtTransaction(debtB.expenseId, grants, X + grants))]
      cr3    == [cr2 EXCEPT ![debtorId][creditorId].owes = @ + grants]
  IN [cr3 EXCEPT ![debtorId][creditorId].debts[debtBIndex + 1].history =
        Append(@, DebtTransaction(debtA.expenseId, grants, Y + grants))]

\* mutant of nextDebtBIndex: always one to the left
nextDebtBIndexLeft(debtBIndex, prefixSum, debtBRightmostIndexForX, length) ==
  debtBIndex - 1

\* next-target selection at the end of the loop body
nextDebtBIndex(debtBIndex, prefixSum, debtBRightmostIndexForX, length) ==
  IF prefixSum > 0 THEN debtBIndex - 1
  ELSE Min(debtBRightmostIndexForX + 1, length - 1)

\* the current amounts of a list of debts, in list order
amountsOf(debts) == [i \in 1..Len(debts) |-> getDebtAmount(debts[i])]

\* what one executed offset did and left behind: the opposing debt it hit,
\* X and Y before it, the grants, and owes and current amounts of both
\* records after it
stepRecord(cr, creditorId, debtorId, X, debtBIndex) ==
  LET debtB == cr[debtorId][creditorId].debts[debtBIndex + 1]
      Y     == getDebtAmount(debtB)
      cr1   == offsetStep(cr, creditorId, debtorId, X, debtBIndex)
      ia    == Len(cr[creditorId][debtorId].debts)
  IN [debtBIndex |-> debtBIndex, expenseB |-> debtB.expenseId,
      expenseA |-> cr[creditorId][debtorId].debts[ia].expenseId,
      X |-> X, Y |-> Y, grants |-> grantsOf(X, Y),
      owesA |-> cr1[creditorId][debtorId].owes,
      owesB |-> cr1[debtorId][creditorId].owes,
      amountsA |-> amountsOf(cr1[creditorId][debtorId].debts),
      amountsB |-> amountsOf(cr1[debtorId][creditorId].debts)]

\* while (X > 0) { ... }; steps collects one record per executed offset
RECURSIVE nettingLoop(_, _, _, _, _, _, _, _)
nettingLoop(cr, creditorId, debtorId, X, debtBIndex, prefixSum, j0, steps) ==
  IF X > 0 /\ debtBIndex >= 0
  THEN LET debtB == cr[debtorId][creditorId].debts[debtBIndex + 1]
           Y     == getDebtAmount(debtB)
       IN IF Y <= 0 THEN [cr |-> cr, steps |-> steps]
          ELSE LET ps1 == prefixSum - Y
                   cr1 == offsetStep(cr, creditorId, debtorId, X, debtBIndex)
                   X1  == newXOf(X, Y)
                   st  == stepRecord(cr, creditorId, debtorId, X, debtBIndex)
               IN nettingLoop(cr1, creditorId, debtorId, X1,
                    nextDebtBIndex(debtBIndex, ps1, j0,
                                   Len(cr[debtorId][creditorId].debts)),
                    ps1, j0, Append(steps, st))
  ELSE [cr |-> cr, steps |-> steps]

\* the opposing list as simplify hands it to findRightmostIndex
opposingView(cr, creditorId, debtorId) == cr[debtorId][creditorId].debts

\* simplify(creditorId, debtorId); sorted is the ledger at the call of
\* findRightmostIndex
simplify(cr, creditorId, debtorId) ==
  IF debtorMissing(cr, creditorId, debtorId) \/ debtorMissing(cr, debtorId, creditorId)
  THEN [cr |-> cr, sorted |-> cr, steps |-> <<>>, error |-> "simplify"]
  ELSE LET cr1 == sortDebtsAscending(cr, creditorId, debtorId)
           A   == cr1[creditorId][debtorId]
       IN IF Len(A.debts) = 0
          THEN [cr |-> cr1, sorted |-> cr1, steps |-> <<>>, error |-> "none"]
          ELSE LET X  == getDebtAmount(A.debts[Len(A.debts)])
                   Bd == opposingView(cr1, creditorId, debtorId)
                   j0 == findRightmostIndex(X, Bd)
                   r  == nettingLoop(cr1, creditorId, debtorId, X, j0,
                                     debtBIndexPrefixSum(Bd, j0), j0, <<>>)
               IN [cr |-> r.cr, sorted |-> cr1, steps |-> r.steps, error |-> "none"]

\* -------------------------------------------------------------------- add
add(cr, creditorId, debtorId, debtorOwes, expenseId) ==
  LET cr1 == ensureTwoWayRelation(cr, creditorId, debtorId)
  IN IF debtorMissing(cr1, creditorId, debtorId)
     THEN [cr |-> cr1, sorted |-> cr1, steps |-> <<>>, error |-> "upsert"]
     ELSE LET cr2 == upsertDebtTransaction(cr1, creditorId, debtorId,
                                           expenseId, expenseId, debtorOwes)
              r   == simplify(cr2, creditorId, debtorId)
          IN [cr |-> r.cr, sorted |-> r.sorted, steps |-> r.steps,
              error |-> r.error]

\* ------------------------------------------------------ toJSON, fromJSON
\* The values JSON.stringify writes and JSON.parse reads, of the kinds a
\* ledger is made of. A text is modelled by the value it denotes, or as not
\* being JSON at all.
JNumber(n) == [type |-> "number", v |-> n]

JString(str) == [type |-> "string", v |-> str]

JArray(items) == [type |-> "array", v |-> items]

JObject(fields) == [type |-> "object", v |-> fields]

JSONText(value) == [syntax |-> TRUE, value |-> value]

NotJSONText == [syntax |-> FALSE, value |-> JString("")]

\* JSON.stringify of the plain records: history entries, debts, a Debtor
RECURSIVE jsonOfHistory(_)
jsonOfHistory(history) ==
  IF Len(history) = 0 THEN <<>>
  ELSE << JObject([expenseId |-> JNumber(history[1].expenseId),
                   grants |-> JNumber(history[1].grants),
                   amount |-> JNumber(history[1].amount)]) >>
       \o jsonOfHistory(Tail(history))

RECURSIVE jsonOfDebts(_)
jsonOfDebts(debts) ==
  IF Len(debts) = 0 THEN <<>>
  ELSE << JObject([expenseId |-> JNumber(debts[1].expenseId),
                   history |-> JArray(jsonOfHistory(debts[1].history))]) >>
       \o jsonOfDebts(Tail(debts))

jsonOfDebtor(debtor) ==
  JObject([owes |-> JNumber(debtor.owes),
           debts |-> JArray(jsonOfDebts(debtor.debts))])

\* the keys of a Map as Map.prototype.entries lists them. The model keeps
\* no insertion order (nothing in the engine reads it); the keys are
\* listed in some order, each once.
RECURSIVE keysOf(_)
keysOf(keys) ==
  IF keys = {} THEN <<>>
  ELSE LET k == CHOOSE k \in keys : TRUE IN <<k>> \o keysOf(keys \ {k})

\* mutant of nestedMapReplacer: the tag is written in lower case
nestedMapReplacerLowerTag(entries) ==
  JObject([dataType |-> JString("map"), value |-> JArray(entries)])

\* nestedMapReplacer for a Map, its entries already written:
\* { dataType: 'Map', value: Array.from(value.entries()) }
nestedMapReplacer(entries) ==
  JObject([dataType |-> JString("Map"), value |-> JArray(entries)])

RECURSIVE debtorEntries(_, _)
debtorEntries(debtors, keys) ==
  IF Len(keys) = 0 THEN <<>>
  ELSE << JArray(<< JString(keys[1]), jsonOfDebtor(debtors[keys[1]]) >>) >>
       \o debtorEntries(debtors, Tail(keys))

jsonOfDebtorsMap(debtors) ==
  nestedMapReplacer(debtorEntries(debtors, keysOf(DOMAIN debtors)))

RECURSIVE creditorEntries(_, _)
creditorEntries(cr, keys) ==
  IF Len(keys) = 0 THEN <<>>
  ELSE << JArray(<< JString(keys[1]), jsonOfDebtorsMap(cr[keys[1]]) >>) >>
       \o creditorEntries(cr, Tail(keys))

\* JSON.stringify(this.creditors, nestedMapReplacer)
toJSON(cr) ==
  JSONText(nestedMapReplacer(creditorEntries(cr, keysOf(DOMAIN cr))))

\* new Map(entries): a later entry of a key replaces an earlier one
RECURSIVE newMap(_)
newMap(entries) ==
  IF Len(entries) = 0 THEN EmptyMap
  ELSE (entries[Len(entries)][1] :> entries[Len(entries)][2])
         @@ newMap(SubSeq(entries, 1, Len(entries) - 1))

\* mutant of nestedMapReviver: the value is handed back as it is
nestedMapReviverPlain(type, value) == value

\* nestedMapReviver(key, value), type being the kind of the JSON value that
\* was read: an object whose dataType is 'Map' becomes new Map(value.value)
\* (new Map(undefined) is an empty Map), anything else stays
nestedMapReviver(type, value) ==
  IF type = "object" /\ "dataType" \in DOMAIN value /\ value.dataType = "Map"
  THEN IF "value" \in DOMAIN value THEN newMap(value.value) ELSE EmptyMap
  ELSE value

\* the object carries the tag the reviver looks for
isTagged(j) ==
  /\ j.type = "object"
  /\ "dataType" \in DOMAIN j.v
  /\ j.v.dataType.type = "string"
  /\ j.v.dataType.v = "Map"

\* new Map(x) takes x, as revived: an array of objects (entries), another
\* Map or an empty string; anything else makes the constructor throw a
\* TypeError
mapConstructorTakes(j) ==
  \/ j.type = "array" /\ \A i \in 1..Len(j.v) : j.v[i].type \in {"array", "object"}
  \/ isTagged(j)
  \/ j.type = "string" /\ j.v = ""

\* the reviver throws somewhere in the value read by JSON.parse
RECURSIVE reviveThrows(_)
reviveThrows(j) ==
  IF j.type = "array" THEN \E i \in 1..Len(j.v) : reviveThrows(j.v[i])
  ELSE IF j.type = "object"
  THEN \/ \E f \in DOMAIN j.v : reviveThrows(j.v[f])
       \/ isTagged(j) /\ "value" \in DOMAIN j.v /\ ~ mapConstructorTakes(j.v.value)
  ELSE FALSE

\* JSON.parse(json, nestedMapReviver) on a JSON value: the reviver is
\* applied bottom-up, to every element and property before its holder
RECURSIVE revive(_)
RECURSIVE reviveItems(_)
RECURSIVE reviveFields(_, _)
revive(j) ==
  IF j.type = "array" THEN nestedMapReviver("array", reviveItems(j.v))
  ELSE IF j.type = "object"
  THEN nestedMapReviver("object", reviveFields(j.v, DOMAIN j.v))
  ELSE nestedMapReviver(j.type, j.v)

reviveItems(items) ==
  IF Len(items) = 0 THEN <<>>
  ELSE <<revive(items[1])>> \o reviveItems(Tail(items))

reviveFields(fields, names) ==
  IF names = {} THEN EmptyMap
  ELSE LET f == CHOOSE f \in names : TRUE
       IN (f :> revive(fields[f])) @@ reviveFields(fields, names \ {f})

\* this.creditors = JSON.parse(json, nestedMapReviver): when JSON.parse
\* throws (SyntaxError of the parser, TypeError out of the reviver) the
\* assignment does not take place
fromJSON(cr, json) ==
  IF ~ json.syntax THEN [cr |-> cr, error |-> "SyntaxError"]
  ELSE IF reviveThrows(json.value) THEN [cr |-> cr, error |-> "TypeError"]
  ELSE [cr |-> revive(json.value), error |-> "none"]

\* the JSON value has the shape of a CreditorsMap as toJSON writes it
isTransactionJSON(j) ==
  /\ j.type = "object"
  /\ DOMAIN j.v = {"expenseId", "grants", "amount"}
  /\ \A f \in DOMAIN j.v : j.v[f].type = "number"

isDebtJSON(j) ==
  /\ j.type = "object"
  /\ DOMAIN j.v = {"expenseId", "history"}
  /\ j.v.expenseId.type = "number"
  /\ j.v.history.type = "array"
  /\ \A i \in 1..Len(j.v.history.v) : isTransactionJSON(j.v.history.v[i])

isDebtorJSON(j) ==
  /\ j.type = "object"
  /\ DOMAIN j.v = {"owes", "debts"}
  /\ j.v.owes.type = "number"
  /\ j.v.debts.type = "array"
  /\ \A i \in 1..Len(j.v.debts.v) : isDebtJSON(j.v.debts.v[i])

isMapJSON(j) ==
  /\ isTagged(j)
  /\ DOMAIN j.v = {"dataType", "value"}
  /\ j.v.value.type = "array"
  /\ \A i \in 1..Len(j.v.value.v) :
       /\ j.v.value.v[i].type = "array"
       /\ Len(j.v.value.v[i].v) = 2
       /\ j.v.value.v[i].v[1].type = "string"

isLedgerJSON(j) ==
  /\ isMapJSON(j)
  /\ \A i \in 1..Len(j.v.value.v) :
       LET debtors == j.v.value.v[i].v[2]
       IN /\ isMapJSON(debtors)
          /\ \A k \in 1..Len(debtors.v.value.v) :
               isDebtorJSON(debtors.v.value.v[k].v[2])

Call(creditorId, debtorId, debtorOwes, expenseId) ==
  [creditorId |-> creditorId, debtorId |-> debtorId,
   debtorOwes |-> debtorOwes, expenseId |-> expenseId]

\* ------------------------------------ split-algorithm/algo.ts, the
\* exploratory variant of the class: what differs from the production
\* class is modelled here, the rest (ensureTwoWayRelation, the sort,
\* findRightmostIndex, the loop body) is the same code
\* mutant of algoUpsertAmount: the amount of the production class
algoUpsertAmountFromPrevious(debtor, debt, grants) ==
  IF Len(debt.history) > 0
  THEN debt.history[Len(debt.history)].amount + grants
  ELSE grants

\* amount: debtor.owes + grants
algoUpsertAmount(debtor, debt, grants) == debtor.owes + grants

algoUpsertDebtTransaction(cr, creditorId, debtorId, fromExpenseId, toExpenseId, grants) ==
  LET debtor == cr[creditorId][debtorId]
      found  == findDebtIndex(debtor.debts, toExpenseId)
      debts1 == IF found = -1
                THEN Append(debtor.debts, [expenseId |-> toExpenseId, history |-> <<>>])
                ELSE debtor.debts
      k      == IF found = -1 THEN Len(debts1) ELSE found + 1
      entry  == DebtTransaction(fromExpenseId, grants,
                                algoUpsertAmount(debtor, debts1[k], grants))
  IN [cr EXCEPT ![creditorId][debtorId] =
        [owes  |-> debtor.owes + grants,
         debts |-> [debts1 EXCEPT ![k].history = Append(@, entry)]]]

\* B.debts.slice(0, debtBIndex).reduce(sum of current amounts); debtBIndex
\* is -1 only for an empty B.debts
algoDebtBIndexPrefixSum(debts, debtBIndex) ==
  prefixSumUpTo(debts, Min(Max(debtBIndex, 0), Len(debts)))

algoSimplify(cr, creditorId, debtorId) ==
  IF debtorMissing(cr, creditorId, debtorId) \/ debtorMissing(cr, debtorId, creditorId)
  THEN [cr |-> cr, sorted |-> cr, steps |-> <<>>, error |-> "simplify"]
  ELSE LET cr1 == sortDebtsAscending(cr, creditorId, debtorId)
           A   == cr1[creditorId][debtorId]
       IN IF Len(A.debts) = 0
          THEN [cr |-> cr1, sorted |-> cr1, steps |-> <<>>, error |-> "none"]
          ELSE LET X  == getDebtAmount(A.debts[Len(A.debts)])
                   Bd == opposingView(cr1, creditorId, debtorId)
                   j0 == findRightmostIndex(X, Bd)
                   r  == nettingLoop(cr1, creditorId, debtorId, X, j0,
                                     algoDebtBIndexPrefixSum(Bd, j0), j0, <<>>)
               IN [cr |-> r.cr, sorted |-> cr1, steps |-> r.steps, error |-> "none"]

algoAdd(cr, creditorId, debtorId, debtorOwes, expenseId) ==
  LET cr1 == ensureTwoWayRelation(cr, creditorId, debtorId)
  IN IF debtorMissing(cr1, creditorId, debtorId)
     THEN [cr |-> cr1, sorted |-> cr1, steps |-> <<>>, error |-> "upsert"]
     ELSE LET cr2 == algoUpsertDebtTransaction(cr1, creditorId, debtorId,
                                               expenseId, expenseId, debtorOwes)
              r   == algoSimplify(cr2, creditorId, debtorId)
          IN [cr |-> r.cr, sorted |-> r.sorted, steps |-> r.steps,
              error |-> r.error]

\* ---------------------------------------------------------------- state
\* new DebtSimplifier(): an empty Map; no add issued yet
NoCall == Call("-", "-", 0, -1)

\* no add is inside the while loop of simplify
RunIdle ==
  [pc |-> "idle", creditorId |-> "-", debtorId |-> "-", X |-> 0,
   debtBIndex |-> -1, debtBIndexPrefixSum |-> 0, debtBRightmostIndexForX |-> -1]

\* the second engine, new: fromJSON was not called on it
NotRestored ==
  [called |-> FALSE, error |-> "none", creditors |-> EmptyMap, adds |-> 0]

\* the last operation on the engine was not fromJSON; it holds a ledger
NotLoaded ==
  [op |-> "none", kind |-> "-", pre |-> EmptyMap, error |-> "none",
   encodesLedger |-> TRUE, holdsLedger |-> TRUE]

\* findRightmostIndex was not called on its own
NoSearch == [pc |-> "idle", value |-> 0, sortedArray |-> <<>>, result |-> -1]

\* the engine of split-algorithm/algo.ts, new, no add issued on it
NoVariant == [creditors |-> EmptyMap, pre |-> EmptyMap]

InitLedger ==
  /\ creditors = EmptyMap
  /\ calls = <<>>
  /\ last = [call |-> NoCall, pre |-> EmptyMap, sorted |-> EmptyMap,
             steps |-> <<>>, error |-> "none"]
  /\ run = RunIdle
  /\ restored = NotRestored
  /\ loaded = NotLoaded
  /\ variant = NoVariant

InitEngine ==
  /\ InitLedger
  /\ search = NoSearch

\* one add(creditorId, debtorId, debtorOwes, expenseId), run to its return
IssueEngine(creditorId, debtorId, debtorOwes, expenseId) ==
  \E r \in {add(creditors, creditorId, debtorId, debtorOwes, expenseId)} :
     /\ creditors' = r.cr
     /\ calls' = Append(calls, Call(creditorId, debtorId, debtorOwes, expenseId))
     /\ last' = [call |-> Call(creditorId, debtorId, debtorOwes, expenseId),
                 pre |-> creditors, sorted |-> r.sorted, steps |-> r.steps,
                 error |-> r.error]
     /\ run' = run
     /\ search' = search

\* the add on the one engine; no second engine, no fromJSON
Issue(creditorId, debtorId, debtorOwes, expenseId) ==
  /\ IssueEngine(creditorId, debtorId, debtorOwes, expenseId)
  /\ UNCHANGED <<restored, loaded, variant>>

\* add with a positive amount, a fresh expense id and creditor # debtor
AddCall(creditorId, debtorId, debtorOwes) ==
  /\ Len(calls) < MaxAdds
  /\ creditorId # debtorId
  /\ Issue(creditorId, debtorId, debtorOwes, Len(calls))
  /\ UNCHANGED <<batch, pending>>

Init ==
  /\ InitEngine
  /\ batch = <<>>
  /\ pending = {}

Next ==
  \E c \in Pair, d \in Pair, x \in 1..MaxAmount : AddCall(c, d, x)

Spec == Init /\ [][Next]_vars

\* ---------------------------------------------- a fixed set of adds, in
\* any order: batch holds the calls (creditor, debtor, amount), pending the
\* positions of batch not issued yet; expense ids follow the issue order
BatchCall(creditorId, debtorId, debtorOwes) ==
  [creditorId |-> creditorId, debtorId |-> debtorId, debtorOwes |-> debtorOwes]

IssuePending(i) ==
  /\ i \in pending
  /\ Issue(batch[i].creditorId, batch[i].debtorId, batch[i].debtorOwes, Len(calls))
  /\ pending' = pending \ {i}
  /\ UNCHANGED batch

NextBatch == \E i \in 1..Len(batch) : IssuePending(i)

\* every batch of BatchLen adds between the two participants of Pair
PairCalls ==
  {BatchCall(p[1], p[2], x) :
     p \in {q \in Pair \X Pair : q[1] # q[2]}, x \in 1..MaxAmount}

InitOrder ==
  /\ InitEngine
  /\ batch \in [1..BatchLen -> PairCalls]
  /\ pending = 1..BatchLen

SpecOrder == InitOrder /\ [][NextBatch]_vars

\* the seven adds of the three-party test (debt-simplifier.spec.ts 146-153)
Scenario6 ==
  << BatchCall("A", "B", 10), BatchCall("A", "B", 5), BatchCall("A", "C", 5),
     BatchCall("B", "A", 7), BatchCall("B", "A", 3), BatchCall("C", "B", 10),
     BatchCall("C", "A", 10) >>

InitScenario6 ==
  /\ InitEngine
  /\ batch = Scenario6
  /\ pending = 1..Len(Scenario6)

SpecScenario6 == InitScenario6 /\ [][NextBatch]_vars

\* ------------------------------ the "cover as much small transactions as
\* possible" tests (debt-simplifier.spec.ts 45-118): up to MaxCoverDebts
\* credits A->B with the amounts those tests use, closed by one add B->A
CoverAmounts == {1, 2, 3, 7}

ClosingAmounts == {7, 14}

closed == \E i \in 1..Len(calls) : calls[i].creditorId = "B"

CoverOpen(debtorOwes) ==
  /\ ~ closed
  /\ Len(calls) < MaxCoverDebts
  /\ Issue("A", "B", debtorOwes, Len(calls))
  /\ UNCHANGED <<batch, pending>>

CoverClose(debtorOwes) ==
  /\ ~ closed
  /\ Len(calls) >= 1
  /\ Issue("B", "A", debtorOwes, Len(calls))
  /\ UNCHANGED <<batch, pending>>

NextCover ==
  \/ \E x \in CoverAmounts : CoverOpen(x)
  \/ \E x \in ClosingAmounts : CoverClose(x)

SpecCover == Init /\ [][NextCover]_vars

\* --------------------------------- adds among the three participants, the
\* creditor and the debtor of a call being any two of them (known to the
\* ledger or not yet, different or the same)
MaxGroupAdds == 3

MaxGroupAmount == 2

GroupCall(creditorId, debtorId, debtorOwes) ==
  /\ Len(calls) < MaxGroupAdds
  /\ Issue(creditorId, debtorId, debtorOwes, Len(calls))
  /\ UNCHANGED <<batch, pending>>

NextGroup ==
  \E c \in Participants, d \in Participants, x \in 1..MaxGroupAmount :
     GroupCall(c, d, x)

SpecGroup == Init /\ [][NextGroup]_vars

\* ------------------------------- add with the while loop of simplify taken
\* one iteration at a time. LoopEnter is add up to the first test of the
\* loop (records ensured, amount booked, ledger[C][D].debts sorted, search
\* and prefix sum done); the ledger is changed in place while run.pc is
\* "loop", as the code changes it.
MaxLoopAdds == 4

MaxLoopAmount == 2

LoopEnter(creditorId, debtorId, debtorOwes) ==
  /\ run.pc = "idle"
  /\ Len(calls) < MaxLoopAdds
  /\ creditorId # debtorId
  /\ LET expenseId == Len(calls)
         cr1 == ensureTwoWayRelation(creditors, creditorId, debtorId)
         cr2 == upsertDebtTransaction(cr1, creditorId, debtorId,
                                      expenseId, expenseId, debtorOwes)
         cr3 == sortDebtsAscending(cr2, creditorId, debtorId)
         A   == cr3[creditorId][debtorId]
         X   == getDebtAmount(A.debts[Len(A.debts)])
         Bd  == opposingView(cr3, creditorId, debtorId)
         j0  == findRightmostIndex(X, Bd)
     IN /\ creditors' = cr3
        /\ calls' = Append(calls, Call(creditorId, debtorId, debtorOwes, expenseId))
        /\ last' = [call |-> Call(creditorId, debtorId, debtorOwes, expenseId),
                    pre |-> creditors, sorted |-> cr3, steps |-> <<>>,
                    error |-> "none"]
        /\ run' = [pc |-> "loop", creditorId |-> creditorId,
                   debtorId |-> debtorId, X |-> X, debtBIndex |-> j0,
                   debtBIndexPrefixSum |-> debtBIndexPrefixSum(Bd, j0),
                   debtBRightmostIndexForX |-> j0]
  /\ UNCHANGED <<batch, pending, restored, loaded, search, variant>>

\* the loop goes on: X > 0, debtBIndex >= 0 and Y > 0
loopGoesOn ==
  /\ run.X > 0
  /\ run.debtBIndex >= 0
  /\ getDebtAmount(creditors[run.debtorId][run.creditorId].debts[run.debtBIndex + 1]) > 0

\* one iteration of the loop body that does not break
LoopStep ==
  /\ run.pc = "loop"
  /\ loopGoesOn
  /\ LET Bd  == creditors[run.debtorId][run.creditorId].debts
         Y   == getDebtAmount(Bd[run.debtBIndex + 1])
         ps1 == run.debtBIndexPrefixSum - Y
     IN /\ creditors' = offsetStep(creditors, run.creditorId, run.debtorId,
                                   run.X, run.debtBIndex)
        /\ last' = [last EXCEPT !.steps =
                      Append(@, stepRecord(creditors, run.creditorId, run.debtorId,
                                           run.X, run.debtBIndex))]
        /\ run' = [run EXCEPT
                     !.X = newXOf(run.X, Y),
                     !.debtBIndexPrefixSum = ps1,
                     !.debtBIndex = nextDebtBIndex(run.debtBIndex, ps1,
                                      run.debtBRightmostIndexForX, Len(Bd))]
  /\ UNCHANGED <<calls, batch, pending, restored, loaded, search, variant>>

\* the loop ends (X = 0 or one of the two breaks) and add returns
LoopExit ==
  /\ run.pc = "loop"
  /\ ~ loopGoesOn
  /\ run' = RunIdle
  /\ UNCHANGED <<creditors, calls, last, batch, pending, restored, loaded,
                 search, variant>>

NextLoop ==
  \/ \E c \in Pair, d \in Pair, x \in 1..MaxLoopAmount : LoopEnter(c, d, x)
  \/ LoopStep
  \/ LoopExit

\* an add that was called runs on: the loop is not left half way
SpecLoop ==
  /\ Init
  /\ [][NextLoop]_vars
  /\ WF_vars(LoopStep)
  /\ WF_vars(LoopExit)

\* ---------------------------------- toJSON and fromJSON between adds: a
\* second engine E2 is restored from the serialization of the first and
\* then receives the same adds; the first engine is handed texts of
\* several kinds
MaxJsonAdds == 3

JsonAmounts == {1, 2}

\* (creditor, debtor) pairs of the adds of the JSON tests
\* (debt-simplifier.spec.ts 185-191), four of the five
JsonPairs ==
  {<<"B", "A">>, <<"A", "B">>, <<"A", "C">>, <<"C", "B">>}

\* the same add on both engines (on the second once it was restored)
JsonAdd(creditorId, debtorId, debtorOwes) ==
  /\ loaded.holdsLedger
  /\ Len(calls) < MaxJsonAdds
  /\ creditorId # debtorId
  /\ IssueEngine(creditorId, debtorId, debtorOwes, Len(calls))
  /\ restored' =
       IF restored.called /\ restored.error = "none"
       THEN [restored EXCEPT
               !.creditors = add(@, creditorId, debtorId, debtorOwes, Len(calls)).cr,
               !.adds = @ + 1]
       ELSE restored
  /\ loaded' = NotLoaded
  /\ UNCHANGED <<batch, pending, variant>>

\* E2.fromJSON(E1.toJSON()), whatever E2 held
Restore ==
  /\ loaded.holdsLedger
  /\ \E r \in {fromJSON(restored.creditors, toJSON(creditors))} :
       restored' = [called |-> TRUE, error |-> r.error, creditors |-> r.cr,
                    adds |-> 0]
  /\ UNCHANGED <<creditors, calls, last, batch, pending, run, loaded,
                 search, variant>>

\* the texts handed to fromJSON: no JSON at all; a ledger written as plain
\* objects, without the Map tags; a Map tag over a number; the engine's own
\* serialization
DocumentKinds == {"notJSON", "plainObject", "mapOfNumber", "ledger"}

documentOf(kind, cr) ==
  CASE kind = "notJSON" -> NotJSONText
    [] kind = "plainObject" ->
         JSONText(JObject([A |-> JObject([B |->
                    jsonOfDebtor([owes |-> 1, debts |-> <<>>])])]))
    [] kind = "mapOfNumber" ->
         JSONText(JObject([dataType |-> JString("Map"), value |-> JNumber(5)]))
    [] kind = "ledger" -> toJSON(cr)

\* fromJSON(text) on the first engine; the second engine starts over
Load(kind) ==
  /\ kind = "ledger" => loaded.holdsLedger
  /\ \E json \in {documentOf(kind, creditors)} :
       \E r \in {fromJSON(creditors, json)} :
         /\ creditors' = r.cr
         /\ loaded' = [op |-> "fromJSON", kind |-> kind, pre |-> creditors,
                       error |-> r.error,
                       encodesLedger |-> json.syntax /\ isLedgerJSON(json.value),
                       holdsLedger |->
                         IF r.error # "none" THEN loaded.holdsLedger
                         ELSE json.syntax /\ isLedgerJSON(json.value)]
  /\ restored' = NotRestored
  /\ UNCHANGED <<calls, last, batch, pending, run, search, variant>>

NextJson ==
  \/ \E p \in JsonPairs, x \in JsonAmounts : JsonAdd(p[1], p[2], x)
  \/ Restore
  \/ \E kind \in DocumentKinds : Load(kind)

SpecJson == Init /\ [][NextJson]_vars

\* ------------------------------------- findRightmostIndex on its own:
\* search holds the arguments of one call and, once made, its result
MaxSearchLen == 4
MaxKey == 3

\* an array of debts whose current amounts are the keys given, in order
debtsOfKeys(keys) ==
  [i \in 1..Len(keys) |->
     [expenseId |-> i - 1,
      history |-> << DebtTransaction(i - 1, keys[i], keys[i]) >>]]

\* arrays sorted ascending by getDebtAmount, as sortDebtsAscending leaves
\* them
SortedArrays ==
  {debtsOfKeys(keys) :
     keys \in {ks \in UNION {[1..n -> 0..MaxKey] : n \in 0..MaxSearchLen} :
                \A i \in 1..(Len(ks) - 1) : ks[i] <= ks[i + 1]}}

InitSearch ==
  /\ InitLedger
  /\ batch = <<>>
  /\ pending = {}
  /\ \E value \in 0..(MaxKey + 1), sortedArray \in SortedArrays :
       search = [pc |-> "called", value |-> value,
                 sortedArray |-> sortedArray, result |-> -1]

\* findRightmostIndex(value, sortedArray, getDebtAmount) returns
Search ==
  /\ search.pc = "called"
  /\ search' = [search EXCEPT
                  !.pc = "returned",
                  !.result = findRightmostIndex(search.value, search.sortedArray)]
  /\ UNCHANGED <<creditors, calls, last, batch, pending, run, restored,
                 loaded, variant>>

NextSearch == Search

SpecSearch == InitSearch /\ [][NextSearch]_vars

\* ------------------------------------- adds whose expense id is any id,
\* fresh or already used in the same record or in the opposite one
MaxReuseAdds == 3
MaxReuseAmount == 2
MaxReuseId == 1

ReuseCall(creditorId, debtorId, debtorOwes, expenseId) ==
  /\ Len(calls) < MaxReuseAdds
  /\ creditorId # debtorId
  /\ Issue(creditorId, debtorId, debtorOwes, expenseId)
  /\ UNCHANGED <<batch, pending>>

NextReuse ==
  \E c \in Pair, d \in Pair, x \in 1..MaxReuseAmount, e \in 0..MaxReuseId :
    ReuseCall(c, d, x, e)

SpecReuse == Init /\ [][NextReuse]_vars

\* ------------------------------------- the same adds on the production
\* engine (creditors) and on the engine of split-algorithm/algo.ts (variant)
MaxVariantAdds == 4
MaxVariantAmount == 2

VariantAdd(creditorId, debtorId, debtorOwes) ==
  /\ Len(calls) < MaxVariantAdds
  /\ creditorId # debtorId
  /\ IssueEngine(creditorId, debtorId, debtorOwes, Len(calls))
  /\ \E r \in {algoAdd(variant.creditors, creditorId, debtorId, debtorOwes,
                       Len(calls))} :
       variant' = [creditors |-> r.cr, pre |-> variant.creditors]
  /\ UNCHANGED <<batch, pending, restored, loaded>>

NextVariant ==
  \E c \in Pair, d \in Pair, x \in 1..MaxVariantAmount : VariantAdd(c, d, x)

SpecVariant == Init /\ [][NextVariant]_vars

\* ------------------------------------------------- reading the ledger
present(cr, c, d) == c \in DOMAIN cr /\ d \in DOMAIN cr[c]

\* owes of the ordered pair, 0 when the record does not exist
owesOf(cr, c, d) == IF present(cr, c, d) THEN cr[c][d].owes ELSE 0

RECURSIVE sumOfAmounts(_)
sumOfAmounts(debts) ==
  IF Len(debts) = 0 THEN 0
  ELSE getDebtAmount(debts[1]) + sumOfAmounts(Tail(debts))

\* sum of the amounts of the issued calls add(c, d, x, ...)
RECURSIVE sumOfCalls(_, _, _)
sumOfCalls(cs, c, d) ==
  IF Len(cs) = 0 THEN 0
  ELSE (IF cs[1].creditorId = c /\ cs[1].debtorId = d THEN cs[1].debtorOwes ELSE 0)
       + sumOfCalls(Tail(cs), c, d)

RECURSIVE sumOfSeq(_)
sumOfSeq(ns) == IF Len(ns) = 0 THEN 0 ELSE ns[1] + sumOfSeq(Tail(ns))

\* current amount of the debt with the given expense id in ledger[c][d]
\* (-1 when there is no such debt)
amountOfExpense(cr, c, d, e) ==
  IF present(cr, c, d) /\ \E i \in 1..Len(cr[c][d].debts) : cr[c][d].debts[i].expenseId = e
  THEN getDebtAmount(cr[c][d].debts[
         CHOOSE i \in 1..Len(cr[c][d].debts) : cr[c][d].debts[i].expenseId = e])
  ELSE -1

\* the ledger after issuing the calls of cs in order on ledger cr, the
\* k-th call (k = 0, 1, ...) carrying expense id firstId + k
RECURSIVE runCalls(_, _, _)
runCalls(cr, cs, firstId) ==
  IF Len(cs) = 0 THEN cr
  ELSE runCalls(add(cr, cs[1].creditorId, cs[1].debtorId, cs[1].debtorOwes, firstId).cr,
                Tail(cs), firstId + 1)

\* ------------------------------------------------------------- claims

\* C1: pair exclusivity. After every add (positive amounts, fresh expense
\* ids, creditor # debtor), for every pair of participants (X, Y) at least
\* one of ledger[X][Y].owes and ledger[Y][X].owes is zero.
C1_PairExclusivity ==
  \A X \in Participants, Y \in Participants :
    (present(creditors, X, Y) /\ present(creditors, Y, X))
      => (creditors[X][Y].owes = 0 \/ creditors[Y][X].owes = 0)

\* C2: conservation. For every ordered pair (c, d) the difference
\* ledger[c][d].owes - ledger[d][c].owes equals the sum of the amounts of
\* the calls add(c, d, x) minus that of the calls add(d, c, x), and every
\* netting step of add(c, d, x) leaves that difference where the booking
\* of x put it (the same quantity leaves both directions).
C2_Conservation ==
  \A c \in DOMAIN creditors : \A d \in DOMAIN creditors[c] :
    /\ owesOf(creditors, c, d) - owesOf(creditors, d, c)
         = sumOfCalls(calls, c, d) - sumOfCalls(calls, d, c)
    /\ (c = last.call.creditorId /\ d = last.call.debtorId) =>
         \A i \in 1..Len(last.steps) :
           last.steps[i].owesA - last.steps[i].owesB
             = owesOf(last.pre, c, d) + last.call.debtorOwes - owesOf(last.pre, d, c)

\* C2 witness: both directions of a pair were credited and the last add
\* netted in two steps or more.
C2_Witness ==
  /\ Len(last.steps) >= 2
  /\ sumOfCalls(calls, "A", "B") > 0
  /\ sumOfCalls(calls, "B", "A") > 0

C4_NonNegativity ==
  \A c \in DOMAIN creditors : \A d \in DOMAIN creditors[c] :
    /\ creditors[c][d].owes >= 0
    /\ \A i \in 1..Len(creditors[c][d].debts) :
         \A k \in 1..Len(creditors[c][d].debts[i].history) :
           creditors[c][d].debts[i].history[k].amount >= 0

\* C4 witness: the last add met an opposing debt smaller than the incoming
\* amount (X > Y, the case in which Y - X is negative) and one larger.
C4_Witness ==
  /\ \E i \in 1..Len(last.steps) : last.steps[i].X > last.steps[i].Y
  /\ \E i \in 1..Len(last.steps) : last.steps[i].X < last.steps[i].Y

C6_OrderIndependence ==
  (pending = {} /\ Len(batch) > 0) =>
    \A c \in Participants, d \in Participants :
      owesOf(creditors, c, d) = owesOf(runCalls(EmptyMap, batch, 0), c, d)

\* C7: the seven adds of scenario 6, issued in any of their permutations,
\* end with A->B = 5, A->C = 0, B->A = 0, B->C = 0, C->A = 5, C->B = 10.
C7_Scenario6AnyOrder ==
  (pending = {} /\ batch = Scenario6) =>
    /\ present(creditors, "A", "B") /\ creditors["A"]["B"].owes = 5
    /\ present(creditors, "A", "C") /\ creditors["A"]["C"].owes = 0
    /\ present(creditors, "B", "A") /\ creditors["B"]["A"].owes = 0
    /\ present(creditors, "B", "C") /\ creditors["B"]["C"].owes = 0
    /\ present(creditors, "C", "A") /\ creditors["C"]["A"].owes = 5
    /\ present(creditors, "C", "B") /\ creditors["C"]["B"].owes = 10

\* C7 witness: all seven adds were issued in the order of the second test
\* (C->A 10, B->A 7, A->B 10, B->A 3, A->C 5, C->B 10, A->B 5).
C7_Witness ==
  /\ pending = {}
  /\ batch = Scenario6
  /\ Len(calls) = 7
  /\ [i \in 1..7 |-> <<calls[i].creditorId, calls[i].debtorId, calls[i].debtorOwes>>]
       = << <<"C", "A", 10>>, <<"B", "A", 7>>, <<"A", "B", 10>>, <<"B", "A", 3>>,
            <<"A", "C", 5>>, <<"C", "B", 10>>, <<"A", "B", 5>> >>

\* C8: small debts first. When add(D, C, X, e) nets X against ledger[C][D],
\* no opposing debt whose amount before the call was greater than X is
\* reduced unless every opposing debt whose amount before the call was <= X
\* is 0 after the call.
C8_SmallDebtsFirst ==
  LET C == last.call.debtorId
      D == last.call.creditorId
      X == last.call.debtorOwes
  IN (Len(calls) > 0 /\ present(last.pre, C, D)) =>
       LET opposing == last.pre[C][D].debts
           after(i) == amountOfExpense(creditors, C, D, opposing[i].expenseId)
       IN \A i \in 1..Len(opposing) :
            (getDebtAmount(opposing[i]) > X /\ after(i) < getDebtAmount(opposing[i]))
              => \A k \in 1..Len(opposing) :
                   getDebtAmount(opposing[k]) <= X => after(k) = 0

\* the calls of the two cover tests: six credits A->B, then one add B->A
coverCalls(amounts, closing) ==
  [i \in 1..7 |-> IF i <= 6 THEN Call("A", "B", amounts[i], i - 1)
                  ELSE Call("B", "A", closing, 6)]

\* the current amounts of the A->B debts with expense ids 0..5
coverAmountsById ==
  [e \in 0..5 |-> amountOfExpense(creditors, "A", "B", e)]

\* C9: cover-some scenario. After add(A,B,.) with 7, 2, 2, 1, 1, 1 (ids
\* 0..5) and add(B,A,7,6) the A->B debts have, by expense id 0..5, the
\* amounts 7,0,0,0,0,0, ledger[A][B].owes = 7 and ledger[B][A].owes = 0.
C9_CoverSome ==
  calls = coverCalls(<<7, 2, 2, 1, 1, 1>>, 7) =>
    /\ coverAmountsById = [e \in 0..5 |-> IF e = 0 THEN 7 ELSE 0]
    /\ creditors["A"]["B"].owes = 7
    /\ creditors["B"]["A"].owes = 0

\* C10: cover-all scenario. After add(A,B,.) with 7, 3, 2, 1, 1, 1 (ids
\* 0..5) and add(B,A,14,6) there are six A->B debts, with amount 0 for the
\* expense ids 0..4 and 1 for expense id 5, ledger[A][B].owes = 1 and
\* ledger[B][A].owes = 0.
C10_CoverAll ==
  calls = coverCalls(<<7, 3, 2, 1, 1, 1>>, 14) =>
    /\ Len(creditors["A"]["B"].debts) = 6
    /\ coverAmountsById = [e \in 0..5 |-> IF e = 5 THEN 1 ELSE 0]
    /\ creditors["A"]["B"].owes = 1
    /\ creditors["B"]["A"].owes = 0

\* C10 witness: the seven calls of the scenario were issued and the closing
\* add went through the three debts of equal amount 1.
C10_Witness ==
  /\ calls = coverCalls(<<7, 3, 2, 1, 1, 1>>, 14)
  /\ Len(last.steps) >= 5
  /\ Cardinality({i \in 1..Len(last.pre["A"]["B"].debts) :
                    getDebtAmount(last.pre["A"]["B"].debts[i]) = 1}) = 3

\* the participants named by the issued calls
namedInCalls ==
  {calls[i].creditorId : i \in 1..Len(calls)}
    \cup {calls[i].debtorId : i \in 1..Len(calls)}

\* C11: symmetric presence. A new engine has no creditor keys; after any
\* sequence of adds ledger[X][Y] exists exactly when ledger[Y][X] exists,
\* and the creditor keys are exactly the participants named as creditor or
\* debtor by some add (two keys after a first add with creditor # debtor).
C11_SymmetricPresence ==
  /\ calls = <<>> => DOMAIN creditors = {}
  /\ \A X \in Participants, Y \in Participants :
       present(creditors, X, Y) <=> present(creditors, Y, X)
  /\ DOMAIN creditors = namedInCalls
  /\ (Len(calls) = 1 /\ calls[1].creditorId # calls[1].debtorId)
       => Cardinality(DOMAIN creditors) = 2

\* C11 witness: all three participants are creditor keys and one pair of
\* them has no record in either direction.
C11_Witness ==
  /\ Cardinality(DOMAIN creditors) = 3
  /\ \E X \in Participants, Y \in Participants :
       X # Y /\ ~ present(creditors, X, Y) /\ ~ present(creditors, Y, X)

\* C12: pairwise frame. add(C, D, x, e) leaves every record ledger[P][Q]
\* with {P, Q} # {C, D} as it was (owes, debts, histories) and creates no
\* record outside the pair: only ledger[C][D] and ledger[D][C] may change
\* or come into being.
C12_PairwiseFrame ==
  last.call # NoCall =>
    \A P \in Participants, Q \in Participants :
      {P, Q} # {last.call.creditorId, last.call.debtorId} =>
        /\ present(creditors, P, Q) <=> present(last.pre, P, Q)
        /\ present(last.pre, P, Q) => creditors[P][Q] = last.pre[P][Q]

\* C12 witness: the last add netted against the opposing record while a
\* record of another pair held a debt.
C12_Witness ==
  /\ Len(last.steps) >= 1
  /\ \E P \in Participants, Q \in Participants :
       /\ {P, Q} # {last.call.creditorId, last.call.debtorId}
       /\ present(last.pre, P, Q)
       /\ Len(last.pre[P][Q].debts) >= 1

\* every creditor key, debtor record and debt of cr0 is in cr1, each debt
\* (found by its expense id) with its history of cr0 as a prefix
appendOnly(cr0, cr1) ==
  \A c \in DOMAIN cr0 :
    /\ c \in DOMAIN cr1
    /\ \A d \in DOMAIN cr0[c] :
         /\ d \in DOMAIN cr1[c]
         /\ \A i \in 1..Len(cr0[c][d].debts) :
              \E k \in 1..Len(cr1[c][d].debts) :
                /\ cr1[c][d].debts[k].expenseId = cr0[c][d].debts[i].expenseId
                /\ Len(cr1[c][d].debts[k].history) >= Len(cr0[c][d].debts[i].history)
                /\ SubSeq(cr1[c][d].debts[k].history, 1,
                          Len(cr0[c][d].debts[i].history))
                     = cr0[c][d].debts[i].history

\* C13: append-only audit trail. No add removes a creditor entry, a debtor
\* record or a debt, and the history of every debt before an add is a
\* prefix of its history after it.
C13_AppendOnly == [][appendOnly(creditors, creditors')]_vars

\* C13 witness: a debt was offset twice after its booking and the sort
\* moved it from the place where it was booked.
C13_Witness ==
  \E c \in DOMAIN creditors : \E d \in DOMAIN creditors[c] :
    \E i \in 1..Len(creditors[c][d].debts) :
      /\ Len(creditors[c][d].debts[i].history) >= 3
      /\ \E k \in 1..Len(creditors[c][d].debts) :
           /\ k > i
           /\ creditors[c][d].debts[k].expenseId < creditors[c][d].debts[i].expenseId

\* C14: no error in correct use. Whatever the ledger reached by adds, an
\* add for any two participants, known to the ledger or not, returns
\* without raising an error.
C14_NoError == last.error = "none"

\* C14 witness: an add returned whose creditor was unknown to a ledger that
\* already held records, after an add whose creditor was known and whose
\* debtor was not.
C14_Witness ==
  /\ Len(calls) = 3
  /\ calls[2].creditorId \in {calls[1].creditorId, calls[1].debtorId}
  /\ calls[2].debtorId \notin {calls[1].creditorId, calls[1].debtorId}
  /\ last.call.creditorId \notin DOMAIN last.pre
  /\ last.error = "none"

\* the current amounts of the list do not decrease from left to right
ascending(debts) ==
  \A i \in 1..(Len(debts) - 1) :
    getDebtAmount(debts[i]) <= getDebtAmount(debts[i + 1])

\* C19: ascending opposing view. When simplify(C, D) calls
\* findRightmostIndex, ledger[D][C].debts is ordered ascending by current
\* amount, and so is ledger[C][D].debts (its last debt, debtA, has a
\* maximal amount).
C19_AscendingOpposingView ==
  last.call # NoCall =>
    /\ ascending(last.sorted[last.call.debtorId][last.call.creditorId].debts)
    /\ ascending(last.sorted[last.call.creditorId][last.call.debtorId].debts)

\* the debt of debts with expense id e (there is one)
debtOfExpense(debts, e) ==
  debts[CHOOSE i \in 1..Len(debts) : debts[i].expenseId = e]

\* C20: exact match. If add(C, D, X, e) is issued while ledger[C][D].owes
\* is 0 and some debt of ledger[D][C].debts has the current amount X > 0,
\* the netting is one offset step: one entry with grants -X is appended to
\* the debt e and one to a single opposing debt of amount X, both debts end
\* at 0, and no other opposing debt changes.
C20_ExactMatch ==
  LET c  == last.call.creditorId
      d  == last.call.debtorId
      X  == last.call.debtorOwes
      e  == last.call.expenseId
      B0 == last.pre[d][c].debts
      B1 == creditors[d][c].debts
  IN (/\ last.call # NoCall
      /\ owesOf(last.pre, c, d) = 0
      /\ present(last.pre, d, c)
      /\ \E i \in 1..Len(B0) : getDebtAmount(B0[i]) = X)
     =>
     /\ Len(last.steps) = 1
     /\ last.steps[1].grants = -X
     /\ debtOfExpense(creditors[c][d].debts, e).history
          = << DebtTransaction(e, X, X),
               DebtTransaction(last.steps[1].expenseB, -X, 0) >>
     /\ Len(B1) = Len(B0)
     /\ \E j \in 1..Len(B0) :
          /\ getDebtAmount(B0[j]) = X
          /\ B1[j] = [B0[j] EXCEPT !.history =
                        Append(@, DebtTransaction(e, -X, 0))]
          /\ \A k \in 1..Len(B0) : k # j => B1[k] = B0[k]

\* the total of the current amounts of the record opposing the add in
\* the loop
opposingTotal(cr) == sumOfAmounts(cr[run.debtorId][run.creditorId].debts)

\* C18: termination. Every add reaches its return after finitely many
\* iterations of the loop of simplify, and each iteration that does not
\* break strictly decreases the total current amount of the opposing
\* record (which stays at 0 or above).
C18_Termination ==
  /\ [][(run.pc = "loop" /\ run'.pc = "loop") =>
          /\ opposingTotal(creditors') < opposingTotal(creditors)
          /\ opposingTotal(creditors') >= 0]_vars
  /\ (run.pc = "loop") ~> (run.pc = "idle")

\* C18 witness: an add returned after two iterations of the loop.
C18_Witness ==
  /\ run.pc = "idle"
  /\ Len(last.steps) >= 2

\* C15: serialization round trip. For every reachable ledger L, loading
\* toJSON(L) with fromJSON into an engine succeeds and yields a ledger equal
\* to L: the same creditor keys, the same debtor keys under each, and for
\* each record the same owes and the same debts in the same order with the
\* same histories.
C15_RoundTrip ==
  (restored.called /\ restored.adds = 0) =>
    /\ restored.error = "none"
    /\ DOMAIN restored.creditors = DOMAIN creditors
    /\ \A c \in DOMAIN creditors :
         /\ DOMAIN restored.creditors[c] = DOMAIN creditors[c]
         /\ \A d \in DOMAIN creditors[c] :
              /\ restored.creditors[c][d].owes = creditors[c][d].owes
              /\ restored.creditors[c][d].debts = creditors[c][d].debts

\* C15 witness: a ledger with three creditor keys, a creditor with two
\* debtors and a debt that was netted has just been restored.
C15_Witness ==
  /\ restored.called
  /\ restored.adds = 0
  /\ Cardinality(DOMAIN creditors) = 3
  /\ \E c \in DOMAIN creditors :
       /\ Cardinality(DOMAIN creditors[c]) = 2
       /\ \E d \in DOMAIN creditors[c] :
            \E i \in 1..Len(creditors[c][d].debts) :
              Len(creditors[c][d].debts[i].history) >= 2

\* C16: restored engine equivalence. If E2 is restored from E1.toJSON() at
\* any point and the same adds are then applied to both, the two ledgers
\* are equal after every add.
C16_RestoredEquivalence ==
  restored.called => (restored.error = "none" /\ restored.creditors = creditors)

\* C16 witness: two adds went to both engines after the restore, the last
\* of them netting against a debt.
C16_Witness ==
  /\ restored.called
  /\ restored.adds >= 2
  /\ Len(last.steps) >= 1

\* C17: malformed input. For every text that is not the serialization of a
\* ledger (text that is not JSON, and JSON that does not encode the
\* two-level mapping) fromJSON fails with an error and the ledger after
\* the failed call is the ledger before it.
C17_MalformedRejected ==
  (loaded.op = "fromJSON" /\ ~ loaded.encodesLedger) =>
    /\ loaded.error # "none"
    /\ creditors = loaded.pre

\* the debts of the list all have the current amount 0 (none, if empty)
noMass(debts) == \A i \in 1..Len(debts) : getDebtAmount(debts[i]) = 0

\* C21: no opposing mass. If ledger[D][C].debts is empty or holds only
\* debts of current amount 0 when add(C, D, X, e) is called with a fresh e,
\* then no offset entry is appended anywhere, ledger[D][C] is unchanged,
\* ledger[C][D].owes grows by exactly X and the new debt e has the single
\* history entry {expenseId: e, grants: X, amount: X}.
C21_NoOpposingMass ==
  LET c == last.call.creditorId
      d == last.call.debtorId
      X == last.call.debtorOwes
      e == last.call.expenseId
  IN (/\ last.call # NoCall
      /\ present(last.pre, d, c) => noMass(last.pre[d][c].debts))
     =>
     /\ last.steps = <<>>
     /\ creditors[d][c] = IF present(last.pre, d, c) THEN last.pre[d][c]
                           ELSE [owes |-> 0, debts |-> <<>>]
     /\ creditors[c][d].owes = owesOf(last.pre, c, d) + X
     /\ debtOfExpense(creditors[c][d].debts, e).history
          = << DebtTransaction(e, X, X) >>
     /\ \A i \in 1..Len(creditors[c][d].debts) :
          creditors[c][d].debts[i].expenseId # e =>
            \E k \in 1..Len(last.pre[c][d].debts) :
              last.pre[c][d].debts[k] = creditors[c][d].debts[i]

\* C21 witness: the opposing record held debts, all netted to 0, the
\* creditor's side already held an open debt, and the add returned.
C21_Witness ==
  LET c == last.call.creditorId
      d == last.call.debtorId
  IN /\ last.call # NoCall
     /\ present(last.pre, d, c)
     /\ Len(last.pre[d][c].debts) >= 2
     /\ noMass(last.pre[d][c].debts)
     /\ last.pre[c][d].owes > 0

\* the ids of the debts of a record
idsOf(debts) == {debts[i].expenseId : i \in 1..Len(debts)}

\* how many entries after the first of a history name expense b with grants g
offsetCount(history, b, g) ==
  Cardinality({k \in 2..Len(history) :
                 history[k].expenseId = b /\ history[k].grants = g})

\* C22: mirrored offsets. After any adds with fresh ids and c # d, every
\* history entry after the first, {expenseId: b, grants: g}, of a debt a in
\* ledger[C][D] corresponds one-to-one to an entry {expenseId: a, grants: g}
\* of the debt b in ledger[D][C]; every expenseId found in a history is the
\* id of a debt of the same record (the first entry) or of the opposite one.
C22_MirroredOffsets ==
  \A c \in Pair, d \in Pair :
    (c # d /\ present(creditors, c, d)) =>
      \A i \in 1..Len(creditors[c][d].debts) :
        LET debtA == creditors[c][d].debts[i]
            a     == debtA.expenseId
        IN \A k \in 1..Len(debtA.history) :
             LET b == debtA.history[k].expenseId
                 g == debtA.history[k].grants
             IN IF k = 1
                THEN b \in idsOf(creditors[c][d].debts)
                ELSE /\ present(creditors, d, c)
                     /\ b \in idsOf(creditors[d][c].debts)
                     /\ offsetCount(debtA.history, b, g)
                          = offsetCount(
                              debtOfExpense(creditors[d][c].debts, b).history,
                              a, g)

\* C22 witness: one debt was offset against two opposing debts, one of them
\* in two entries.
C22_Witness ==
  \E c \in Pair, d \in Pair :
    /\ c # d
    /\ present(creditors, c, d)
    /\ \E i \in 1..Len(creditors[c][d].debts) :
         LET h == creditors[c][d].debts[i].history
         IN /\ Len(h) >= 3
            /\ \E k \in 2..Len(h), m \in 2..Len(h) :
                 h[k].expenseId # h[m].expenseId

\* C23: initial booking. Every debt has a non-empty history whose first
\* entry has expenseId = the debt's own id and grants = amount = the amount
\* passed to the add that created the debt.
C23_InitialBooking ==
  \A c \in Pair, d \in Pair :
    present(creditors, c, d) =>
      \A i \in 1..Len(creditors[c][d].debts) :
        LET debt == creditors[c][d].debts[i]
        IN /\ Len(debt.history) >= 1
           /\ debt.history[1].expenseId = debt.expenseId
           /\ debt.expenseId + 1 \in 1..Len(calls)
           /\ calls[debt.expenseId + 1].creditorId = c
           /\ calls[debt.expenseId + 1].debtorId = d
           /\ debt.history[1].grants = calls[debt.expenseId + 1].debtorOwes
           /\ debt.history[1].amount = calls[debt.expenseId + 1].debtorOwes

\* C23 witness: a debt was booked while its record already owed something,
\* and has been offset since.
C23_Witness ==
  \E c \in Pair, d \in Pair :
    /\ present(creditors, c, d)
    /\ Len(creditors[c][d].debts) >= 2
    /\ \E i \in 1..Len(creditors[c][d].debts) :
         /\ Len(creditors[c][d].debts[i].history) >= 2
         /\ creditors[c][d].debts[i].history[1].amount >= 2
    /\ last.pre[last.call.creditorId][last.call.debtorId].owes > 0

C27_IncomingFolded ==
  \A i \in 1..Len(last.steps) : last.steps[i].expenseA = last.call.expenseId

\* C28: self pair. add(c, c, x, e) with creditor = debtor and x > 0 keeps
\* the data-model invariants on ledger[c][c]: afterwards owes >= 0, owes is
\* the sum of the current amounts of its debts, and the amounts of every
\* debt are the prefix sums of its grants.
C28_SelfPair ==
  \A c \in Participants :
    present(creditors, c, c) =>
      /\ creditors[c][c].owes >= 0
      /\ creditors[c][c].owes = sumOfAmounts(creditors[c][c].debts)
      /\ \A i \in 1..Len(creditors[c][c].debts) :
           LET h == creditors[c][c].debts[i].history
           IN \A k \in 1..Len(h) :
                h[k].amount
                  = (IF k = 1 THEN 0 ELSE h[k - 1].amount) + h[k].grants

\* key of the element at the 0-based index i of the searched array
keyAt(i) == getDebtAmount(search.sortedArray[i + 1])

\* the index the search settles on before the skip-zero rule: rightmost
\* index with key = value, else largest index with key < value, else 0
chosenIndex ==
  LET n       == Len(search.sortedArray)
      equal   == {i \in 0..(n - 1) : keyAt(i) = search.value}
      smaller == {i \in 0..(n - 1) : keyAt(i) < search.value}
      top(S)  == CHOOSE i \in S : \A k \in S : k <= i
  IN IF equal # {} THEN top(equal)
     ELSE IF smaller # {} THEN top(smaller)
     ELSE 0

\* C25: findRightmostIndex result. For every sequence sorted ascending by a
\* non-negative key and every target >= 0 the result is -1 if the sequence
\* is empty; otherwise, with i the rightmost index with key = target if
\* there is one, else the largest index with key < target, else 0, the
\* result is i + 1 when key(i) = 0 and i + 1 is a valid index, and i
\* otherwise. So for target > 0 the returned index has a non-zero key
\* whenever some element has a non-zero key.
C25_FindRightmostIndex ==
  search.pc = "returned" =>
    LET n == Len(search.sortedArray)
    IN /\ n = 0 => search.result = -1
       /\ n > 0 =>
            search.result =
              (IF keyAt(chosenIndex) = 0 /\ chosenIndex + 1 < n
               THEN chosenIndex + 1 ELSE chosenIndex)
       /\ (search.value > 0 /\ \E i \in 0..(n - 1) : keyAt(i) # 0)
            => keyAt(search.result) # 0

\* C25 witness: a returned search for a positive target with no equal key,
\* in an array that starts with two zero keys and has a non-zero one, where
\* the skip-zero rule moved the result.
C25_Witness ==
  /\ search.pc = "returned"
  /\ Len(search.sortedArray) >= 3
  /\ keyAt(0) = 0
  /\ keyAt(1) = 0
  /\ keyAt(Len(search.sortedArray) - 1) > search.value
  /\ search.value > 0
  /\ search.result = chosenIndex + 1

\* the last add carried an expense id that its record already held
reusedId ==
  /\ last.call # NoCall
  /\ present(last.pre, last.call.creditorId, last.call.debtorId)
  /\ last.call.expenseId
       \in idsOf(last.pre[last.call.creditorId][last.call.debtorId].debts)

\* C26: unique expense per side. After any adds, also adds that reuse an
\* expense id already present in the same (creditor, debtor) record, the
\* expenseIds of the debts of each record are pairwise distinct; a reused
\* id appends one history entry with amount = previous amount + x to the
\* existing debt and creates no second debt.
C26_UniqueExpense ==
  /\ \A c \in DOMAIN creditors : \A d \in DOMAIN creditors[c] :
       \A i \in 1..Len(creditors[c][d].debts) :
         \A k \in 1..Len(creditors[c][d].debts) :
           i # k => creditors[c][d].debts[i].expenseId
                      # creditors[c][d].debts[k].expenseId
  /\ reusedId =>
       LET c   == last.call.creditorId
           d   == last.call.debtorId
           x   == last.call.debtorOwes
           e   == last.call.expenseId
           old == debtOfExpense(last.pre[c][d].debts, e)
           new == debtOfExpense(creditors[c][d].debts, e)
           n   == Len(old.history)
       IN /\ Len(creditors[c][d].debts) = Len(last.pre[c][d].debts)
          /\ Len(new.history) > n
          /\ SubSeq(new.history, 1, n) = old.history
          /\ new.history[n + 1] = DebtTransaction(e, x, getDebtAmount(old) + x)
          /\ Len(new.history) - n - 1
               = Cardinality({i \in 1..Len(last.steps) :
                                last.steps[i].expenseA = e})

\* C26 witness: an add reused the id of a debt that had been offset, and
\* was netted itself.
C26_Witness ==
  /\ reusedId
  /\ Len(debtOfExpense(
            last.pre[last.call.creditorId][last.call.debtorId].debts,
            last.call.expenseId).history) >= 2
  /\ Len(last.steps) >= 1

\* history continuity (P4) of a ledger: in every history the first entry
\* has amount = grants and every later one amount = previous amount + grants
continuity(cr) ==
  \A c \in DOMAIN cr : \A d \in DOMAIN cr[c] :
    \A i \in 1..Len(cr[c][d].debts) :
      LET h == cr[c][d].debts[i].history
      IN \A k \in 1..Len(h) :
           h[k].amount = (IF k = 1 THEN 0 ELSE h[k - 1].amount) + h[k].grants

\* C29: the exploratory variant breaks continuity. In the variant of
\* split-algorithm/algo.ts, whose upsert records amount = owes + grants,
\* an add onto a record that already owes something (e.g. the second of
\* two adds of positive amounts by the same creditor to the same debtor
\* with different expense ids) books a debt whose first history entry has
\* amount # grants, so continuity (P4) fails for the variant, while it
\* holds for the production DebtSimplifier on the same adds.
C29_VariantBreaksContinuity ==
  LET c == last.call.creditorId
      d == last.call.debtorId
      e == last.call.expenseId
  IN (last.call # NoCall /\ owesOf(variant.pre, c, d) # 0) =>
       LET h == debtOfExpense(variant.creditors[c][d].debts, e).history
       IN /\ h[1].expenseId = e
          /\ h[1].grants = last.call.debtorOwes
          /\ h[1].amount # h[1].grants
          /\ ~ continuity(variant.creditors)
          /\ continuity(creditors)

\* C29 witness: exactly two adds, by the same creditor to the same debtor,
\* and the second debt of the variant starts at an amount other than its
\* grants.
C29_Witness ==
  /\ Len(calls) = 2
  /\ calls[1].creditorId = calls[2].creditorId
  /\ calls[1].debtorId = calls[2].debtorId
  /\ LET h == debtOfExpense(
                variant.creditors[calls[2].creditorId][calls[2].debtorId].debts,
                1).history
     IN h[1].amount # h[1].grants
  /\ continuity(creditors)

====
